---- MODULE Spec2Model ----
(***************************************************************************)
(* Model of the web3wall meta contract (src/src/main.rs): the three entry  *)
(* points on_execute, on_mint and on_clone that a host invokes one at a    *)
(* time.  Rust Strings are TLA+ strings, read and built character by       *)
(* character; a panic (Option::unwrap on None) is a call that traps and    *)
(* hands no MetaContractResult back to the host.                           *)
(***************************************************************************)
EXTENDS Integers, Sequences, FiniteSets, TLC

VARIABLES call, ret, kept

vars == <<call, ret, kept>>

(***************************************************************************)
(* Characters.                                                             *)
(***************************************************************************)

\* The character of s at position i (1-based); "" stands for end of input.
Ch(s, i) == IF i >= 1 /\ i <= Len(s) THEN SubSeq(s, i, i) ELSE ""

\* str::starts_with
starts_with(s, p) == Len(p) <= Len(s) /\ SubSeq(s, 1, Len(p)) = p

\* str::contains
contains(s, w) == \E i \in 1..(Len(s) - Len(w) + 1) : SubSeq(s, i, i + Len(w) - 1) = w

(***************************************************************************)
(* serde_json::from_str, on the JSON grammar without \u and \b escapes and *)
(* without exponents (no modelled payload uses them).  A Value is a record *)
(* tagged by kind; an object's members are a function from key to Value,   *)
(* a repeated key keeping its last value as serde_json's Map::insert does. *)
(***************************************************************************)

Null == [kind |-> "null"]
Bool(b) == [kind |-> "bool", b |-> b]
Number(t) == [kind |-> "number", s |-> t]
String(t) == [kind |-> "string", s |-> t]
Array(items) == [kind |-> "array", items |-> items]
Object(map) == [kind |-> "object", map |-> map]

ParseFail == [ok |-> FALSE]
ParseOk(v, j) == [ok |-> TRUE, v |-> v, j |-> j]

IsWs(c) == c \in {" ", "\n", "\t", "\r"}
IsDigit(c) == c \in {"0", "1", "2", "3", "4", "5", "6", "7", "8", "9"}
IsControl(c) == c \in {"\n", "\t", "\r", "\f"}

RECURSIVE SkipWs(_, _)
SkipWs(s, i) == IF IsWs(Ch(s, i)) THEN SkipWs(s, i + 1) ELSE i

RECURSIVE SkipDigits(_, _)
SkipDigits(s, i) == IF IsDigit(Ch(s, i)) THEN SkipDigits(s, i + 1) ELSE i

Unescape(e) ==
    CASE e = "\"" -> "\""
      [] e = "\\" -> "\\"
      [] e = "/" -> "/"
      [] e = "n" -> "\n"
      [] e = "t" -> "\t"
      [] e = "r" -> "\r"
      [] e = "f" -> "\f"

\* The string literal whose opening quote precedes position i.
RECURSIVE ParseStr(_, _, _)
ParseStr(s, i, acc) ==
    LET c == Ch(s, i) IN
    IF c = "" \/ IsControl(c) THEN ParseFail
    ELSE IF c = "\"" THEN ParseOk(acc, i + 1)
    ELSE IF c = "\\"
         THEN IF Ch(s, i + 1) \in {"\"", "\\", "/", "n", "t", "r", "f"}
              THEN ParseStr(s, i + 2, acc \o Unescape(Ch(s, i + 1)))
              ELSE ParseFail
    ELSE ParseStr(s, i + 1, acc \o c)

ParseNumber(s, i) ==
    LET k == IF Ch(s, i) = "-" THEN i + 1 ELSE i
        e == IF Ch(s, k) = "0" THEN k + 1 ELSE SkipDigits(s, k)
    IN  IF ~IsDigit(Ch(s, k)) THEN ParseFail
        ELSE IF Ch(s, k) = "0" /\ IsDigit(Ch(s, e)) THEN ParseFail
        ELSE IF Ch(s, e) = "."
             THEN IF IsDigit(Ch(s, e + 1))
                  THEN LET f == SkipDigits(s, e + 1)
                       IN ParseOk(Number(SubSeq(s, i, f - 1)), f)
                  ELSE ParseFail
        ELSE ParseOk(Number(SubSeq(s, i, e - 1)), e)

ParseIdent(s, i, word, v) ==
    IF i + Len(word) - 1 <= Len(s) /\ SubSeq(s, i, i + Len(word) - 1) = word
    THEN ParseOk(v, i + Len(word))
    ELSE ParseFail

RECURSIVE ParseValue(_, _)
RECURSIVE ParseElems(_, _, _)
RECURSIVE ParseMembers(_, _, _)

ParseValue(s, i0) ==
    LET i == SkipWs(s, i0)
        c == Ch(s, i)
    IN  CASE c = "{" ->
               LET k == SkipWs(s, i + 1)
               IN  IF Ch(s, k) = "}" THEN ParseOk(Object(<<>>), k + 1)
                   ELSE ParseMembers(s, k, <<>>)
          [] c = "[" ->
               LET k == SkipWs(s, i + 1)
               IN  IF Ch(s, k) = "]" THEN ParseOk(Array(<<>>), k + 1)
                   ELSE ParseElems(s, k, <<>>)
          [] c = "\"" ->
               LET r == ParseStr(s, i + 1, "")
               IN  IF r.ok THEN ParseOk(String(r.v), r.j) ELSE ParseFail
          [] c = "t" -> ParseIdent(s, i, "true", Bool(TRUE))
          [] c = "f" -> ParseIdent(s, i, "false", Bool(FALSE))
          [] c = "n" -> ParseIdent(s, i, "null", Null)
          [] c = "-" \/ IsDigit(c) -> ParseNumber(s, i)
          [] OTHER -> ParseFail

\* The elements of an array from position i, after "[" or ",".
ParseElems(s, i, items) ==
    LET r == ParseValue(s, i) IN
    IF ~r.ok THEN ParseFail
    ELSE LET k == SkipWs(s, r.j)
             more == Append(items, r.v)
         IN  IF Ch(s, k) = "," THEN ParseElems(s, k + 1, more)
             ELSE IF Ch(s, k) = "]" THEN ParseOk(Array(more), k + 1)
             ELSE ParseFail

\* The members of an object from position i (white space skipped), after
\* "{" or ",": a key string, ":", a value.
ParseMembers(s, i, map) ==
    IF Ch(s, i) # "\"" THEN ParseFail
    ELSE LET key == ParseStr(s, i + 1, "") IN
         IF ~key.ok THEN ParseFail
         ELSE LET c == SkipWs(s, key.j) IN
              IF Ch(s, c) # ":" THEN ParseFail
              ELSE LET r == ParseValue(s, c + 1) IN
                   IF ~r.ok THEN ParseFail
                   ELSE LET k == SkipWs(s, r.j)
                            more == (key.v :> r.v) @@ map
                        IN  IF Ch(s, k) = ","
                            THEN ParseMembers(s, SkipWs(s, k + 1), more)
                            ELSE IF Ch(s, k) = "}"
                            THEN ParseOk(Object(more), k + 1)
                            ELSE ParseFail

\* from_str without the check for trailing characters.
from_str_prefix(s) ==
    LET r == ParseValue(s, 1) IN
    IF r.ok THEN [ok |-> TRUE, v |-> r.v] ELSE [ok |-> FALSE]

\* serde_json::from_str: one value, then nothing but white space.
from_str(s) ==
    LET r == ParseValue(s, 1) IN
    IF r.ok /\ SkipWs(s, r.j) > Len(s) THEN [ok |-> TRUE, v |-> r.v]
    ELSE [ok |-> FALSE]

\* Value::is_object
is_object(v) == v.kind = "object"

\* Value's Index<&str>: the member, or Null when v is no object or has none.
Index(v, key) ==
    IF v.kind = "object" /\ key \in DOMAIN v.map THEN v.map[key] ELSE Null

None == [some |-> FALSE]
Some(x) == [some |-> TRUE, v |-> x]

\* as_str that also hands out a number's text.
as_str_of_scalar(v) == IF v.kind \in {"string", "number"} THEN Some(v.s) ELSE None

\* Value::as_str
as_str(v) == IF v.kind = "string" THEN Some(v.s) ELSE None


(***************************************************************************)
(* The host's types (mod types): only the fields the entry points read.    *)
(***************************************************************************)

FinalMetadata(public_key, alias, content, loose, version) ==
    [public_key |-> public_key, alias |-> alias, content |-> content,
     loose |-> loose, version |-> version]

MetaContractResult(result, metadatas, error_string) ==
    [result |-> result, metadatas |-> metadatas, error_string |-> error_string]

\* No call in flight, no outcome, no outcome kept.
Idle == [op |-> "idle"]
NoResult == [status |-> "none"]
Nothing == [call |-> Idle, ret |-> NoResult]

\* What a call hands back: a value, or nothing when it panicked.
Returned(v) == [status |-> "returned", value |-> v]
Trapped == [status |-> "trapped"]

(***************************************************************************)
(* on_execute                                                              *)
(***************************************************************************)

profane_words == <<"", "">>

is_profane(text) ==
    \E k \in 1..Len(profane_words) :
        IF profane_words[k] # "" THEN contains(text, profane_words[k]) ELSE FALSE

TrustedPrefix == "https://nftstorage.link/ipfs/"

\* The link check as a search for the host and path anywhere in the link.
is_nft_storage_link_anywhere(link) == link = "" \/ contains(link, "nftstorage.link/ipfs")

is_nft_storage_link(link) == link = "" \/ starts_with(link, TrustedPrefix)

\* An early return that leaves the reason out.
RejectedWithoutReason(error_string) == MetaContractResult(FALSE, <<>>, "")

\* The early returns: result false, no records, the reason.
Rejected(error_string) == MetaContractResult(FALSE, <<>>, error_string)

\* The echo record with the empty version of the on_mint records.
EchoRecordUnversioned(transaction) ==
    FinalMetadata(transaction.public_key, "", transaction.data, 1, "")

\* finals.push(FinalMetadata { .. }) of on_execute
EchoRecord(transaction) ==
    FinalMetadata(transaction.public_key, "", transaction.data, 1, transaction.version)

Accepted(finals) == MetaContractResult(TRUE, finals, "")

on_execute(contract, metadatas, transaction) ==
    LET data == from_str(transaction.data) IN
    IF ~data.ok THEN Returned(Rejected("Data is not a valid format."))
    ELSE IF ~is_object(data.v)
    THEN Returned(Rejected("Data does not follow the required JSON schema."))
    ELSE LET json_data == data.v
             image == as_str(Index(json_data, "image"))
             text == as_str(Index(json_data, "text"))
             again == as_str(Index(json_data, "text"))
         IN  IF ~image.some /\ ~text.some
             THEN Returned(Rejected("No data inputted"))
             ELSE IF image.some /\ ~is_nft_storage_link(image.v)
             THEN Returned(Rejected("Invalid image link is been used"))
             ELSE IF text.some /\ is_profane(text.v)
             THEN Returned(Rejected("Profanity found in the text."))
             \* json_data["text"].as_str().unwrap()
             ELSE IF ~again.some THEN Trapped
             ELSE IF is_profane(again.v)
             THEN Returned(Rejected("Profanity found in the text."))
             ELSE Returned(Accepted(<<EchoRecord(transaction)>>))

(***************************************************************************)
(* hex::decode: a Vec<u8> (a sequence of 0..255), or a FromHexError.       *)
(***************************************************************************)

Ok(v) == [ok |-> TRUE, v |-> v]
Err(e) == [ok |-> FALSE, e |-> e]

HexValue ==
    ("0" :> 0) @@ ("1" :> 1) @@ ("2" :> 2) @@ ("3" :> 3) @@ ("4" :> 4) @@
    ("5" :> 5) @@ ("6" :> 6) @@ ("7" :> 7) @@ ("8" :> 8) @@ ("9" :> 9) @@
    ("a" :> 10) @@ ("b" :> 11) @@ ("c" :> 12) @@ ("d" :> 13) @@ ("e" :> 14) @@
    ("f" :> 15) @@ ("A" :> 10) @@ ("B" :> 11) @@ ("C" :> 12) @@ ("D" :> 13) @@
    ("E" :> 14) @@ ("F" :> 15)

OddLength == [kind |-> "OddLength"]
InvalidHexCharacter(c, index) == [kind |-> "InvalidHexCharacter", c |-> c, index |-> index]

\* The odd length is refused first, then the first character that is no hex
\* digit, by its 0-based index.
hex_decode(data) ==
    IF Len(data) % 2 # 0 THEN Err(OddLength)
    ELSE LET bad == {i \in 1..Len(data) : Ch(data, i) \notin DOMAIN HexValue} IN
         IF bad # {}
         THEN LET i == CHOOSE m \in bad : \A n \in bad : m <= n
              IN  Err(InvalidHexCharacter(Ch(data, i), i - 1))
         ELSE Ok([k \in 1..(Len(data) \div 2) |->
                     16 * HexValue[Ch(data, 2 * k - 1)] + HexValue[Ch(data, 2 * k)]])

\* FromHexError's Display
HexErrorToString(e) ==
    IF e.kind = "OddLength" THEN "Odd number of digits"
    ELSE "Invalid character '" \o e.c \o "' at position " \o ToString(e.index)

(***************************************************************************)
(* ethabi::decode against a list of ParamType::String.                     *)
(***************************************************************************)

WordLen == 32

InvalidData == [kind |-> "InvalidData"]

\* ethabi::Error's Display
AbiErrorToString(e) == "Invalid data"

peek(data, offset, len) ==
    IF offset + len > Len(data) THEN Err(InvalidData)
    ELSE Ok(SubSeq(data, offset + 1, offset + len))

\* A word as a length or an offset: its low four bytes, the rest being zero.
as_usize(slice) ==
    IF \E k \in 1..(WordLen - 4) : slice[k] # 0 THEN Err(InvalidData)
    ELSE Ok(slice[WordLen - 3] * 16777216 + slice[WordLen - 2] * 65536
            + slice[WordLen - 1] * 256 + slice[WordLen])

peek_usize(data, offset) ==
    LET w == peek(data, offset, WordLen) IN
    IF w.ok THEN as_usize(w.v) ELSE w

\* The printable ASCII characters 0x20..0x5F and 0x61..0x7E (a TLA+ string
\* cannot hold the grave accent, 0x60, which no modelled input uses).
AsciiLow == " !\"#$%&'()*+,-./0123456789:;<=>?@ABCDEFGHIJKLMNOPQRSTUVWXYZ[\\]^_"
AsciiHigh == "abcdefghijklmnopqrstuvwxyz{|}~"

ReplacementCharacter == "<U+FFFD>"

\* One byte as text: printable ASCII as itself; a byte that is no UTF-8
\* (0x80 and up, on its own) as U+FFFD.  Other bytes are not modelled.
Chr(b) ==
    IF b >= 32 /\ b <= 95 THEN Ch(AsciiLow, b - 31)
    ELSE IF b >= 97 /\ b <= 126 THEN Ch(AsciiHigh, b - 96)
    ELSE ReplacementCharacter

RECURSIVE from_utf8_lossy(_)
from_utf8_lossy(bytes) ==
    IF bytes = <<>> THEN "" ELSE Chr(Head(bytes)) \o from_utf8_lossy(Tail(bytes))

\* decode_param for ParamType::String at head position offset: the word there
\* is the offset of the tail, whose first word is the length of the bytes
\* that follow it.
decode_param(param, data, offset) ==
    LET dynamic_offset == peek_usize(data, offset) IN
    IF ~dynamic_offset.ok THEN dynamic_offset
    ELSE LET len == peek_usize(data, dynamic_offset.v) IN
         IF ~len.ok THEN len
         ELSE LET bytes == peek(data, dynamic_offset.v + WordLen, len.v) IN
              IF ~bytes.ok THEN bytes
              ELSE Ok([token |-> from_utf8_lossy(bytes.v), new_offset |-> offset + WordLen])

RECURSIVE decode_from(_, _, _, _)
decode_from(types, data, offset, tokens) ==
    IF types = <<>> THEN Ok(tokens)
    ELSE LET res == decode_param(Head(types), data, offset) IN
         IF ~res.ok THEN res
         ELSE decode_from(Tail(types), data, res.v.new_offset, Append(tokens, res.v.token))

decode(types, data) == decode_from(types, data, 0, <<>>)

(***************************************************************************)
(* serde_json::to_string of a Vec<OpenSeaAttributes> (src/src/data.rs); no *)
(* modelled attribute holds a character that needs escaping.               *)
(***************************************************************************)

OpenSeaAttributes(trait_type, value) == [trait_type |-> trait_type, value |-> value]

Quoted(s) == "\"" \o s \o "\""

AttributeToString(a) ==
    "{" \o Quoted("trait_type") \o ":" \o Quoted(a.trait_type) \o ","
        \o Quoted("value") \o ":" \o Quoted(a.value) \o "}"

RECURSIVE JoinAttributes(_)
JoinAttributes(vec) ==
    IF vec = <<>> THEN ""
    ELSE IF Len(vec) = 1 THEN AttributeToString(vec[1])
    ELSE AttributeToString(vec[1]) \o "," \o JoinAttributes(Tail(vec))

to_string(vec) == "[" \o JoinAttributes(vec) \o "]"

(***************************************************************************)
(* on_mint                                                                 *)
(***************************************************************************)

param_types == <<"String", "String", "String">>

\* The error without the description of the failure.
DecodeErrorBare(description) == "Invalid data structure"

\* format!("Invalid data structure: {}", e.to_string())
DecodeError(description) == "Invalid data structure: " \o description

\* The three pushes with the indices of image and body exchanged.
DecodedRecordsSwapped(contract, result) ==
    <<FinalMetadata(contract.public_key, "name", result[1], 1, ""),
      FinalMetadata(contract.public_key, "image", result[3], 1, ""),
      FinalMetadata(contract.public_key, "body", result[2], 1, "")>>

\* The three pushes under result.len() == 3.
DecodedRecords(contract, result) ==
    <<FinalMetadata(contract.public_key, "name", result[1], 1, ""),
      FinalMetadata(contract.public_key, "image", result[2], 1, ""),
      FinalMetadata(contract.public_key, "body", result[3], 1, "")>>

DescriptionRecord(contract) ==
    FinalMetadata(contract.public_key, "description",
                  "A subject in w3wall decentralize forum", 1, "")

\* The attributes with trait_type and value exchanged in the second pair.
attr_swapped == <<OpenSeaAttributes("origin", "w3wall"), OpenSeaAttributes("topic", "type")>>

attr == <<OpenSeaAttributes("origin", "w3wall"), OpenSeaAttributes("type", "topic")>>

AttributesRecord(contract) ==
    FinalMetadata(contract.public_key, "attributes", to_string(attr), 1, "")

\* The first half of on_mint: error and finals after "extract out data".
Extract(contract, data) ==
    IF Len(data) > 0
    THEN LET data_bytes == hex_decode(data) IN
         IF data_bytes.ok
         THEN LET results == decode(param_types, data_bytes.v) IN
              IF results.ok
              THEN [error |-> None,
                    finals |-> IF Len(results.v) = 3
                               THEN DecodedRecords(contract, results.v) ELSE <<>>]
              ELSE [error |-> Some(DecodeError(AbiErrorToString(results.e))),
                    finals |-> <<>>]
         ELSE [error |-> Some(DecodeError(HexErrorToString(data_bytes.e))),
               finals |-> <<>>]
    ELSE [error |-> None, finals |-> <<>>]

on_mint(contract, data_key, token_id, data) ==
    LET x == Extract(contract, data) IN
    IF x.error.some THEN Returned(Rejected(x.error.v))
    ELSE Returned(Accepted(x.finals \o <<DescriptionRecord(contract), AttributesRecord(contract)>>))

(***************************************************************************)
(* on_clone                                                                *)
(***************************************************************************)

\* on_clone answering true only until the host has kept an outcome: an entry
\* point that reads state left by earlier calls.
on_clone_once == Returned(kept = Nothing)

on_clone == Returned(TRUE)

(***************************************************************************)
(* The inputs the host is let to send.                                     *)
(***************************************************************************)

MaxFields == 2
MaxCut == 4

Contracts == {[public_key |-> "0xC1"], [public_key |-> "0xC2"]}

MetadataLists == {<<>>, <<FinalMetadata("0xA1", "", "{}", 1, "1")>>}

\* The members an object payload is put together from.
Members ==
    {Quoted("image") \o ":" \o Quoted(""),
     Quoted("image") \o ":" \o Quoted("https://nftstorage.link/ipfs/Qm"),
     Quoted("image") \o ":" \o Quoted("https://nftstorage.link/ipfs"),
     Quoted("image") \o ":" \o Quoted("ipfs://Qm"),
     Quoted("image") \o ":7",
     Quoted("text") \o ":" \o Quoted("gm"),
     Quoted("text") \o ":null",
     Quoted("name") \o ":" \o Quoted("x")}

RECURSIVE JoinMembers(_)
JoinMembers(ms) ==
    IF ms = <<>> THEN ""
    ELSE IF Len(ms) = 1 THEN ms[1]
    ELSE ms[1] \o "," \o JoinMembers(Tail(ms))

ObjectPayloads ==
    {"{" \o JoinMembers(ms) \o "}" :
        ms \in UNION {[1..n -> Members] : n \in 0..MaxFields}}
    \cup {" { \"text\" : \"g\\\"m\" , \"image\" : \"\" } ",
          "{\"text\":{\"image\":\"ipfs://Qm\"}}",
          "{\"image\":[\"https://nftstorage.link/ipfs/Qm\"],\"text\":\"\"}"}

\* JSON values that are no objects.
NonObjectPayloads ==
    {"[]", "[{\"text\":\"gm\"}]", "7", "-0.5", "\"text\"", "null", "true", " false "}

\* Texts that are no JSON.
MalformedPayloads ==
    {"", " ", "{", "}", "{\"image\"}", "{\"image\":}", "{\"text\":\"gm\",}",
     "{\"text\":\"gm\"} x", "{\"text\":\"gm\"}{}", "{text:\"gm\"}", "{'text':'gm'}",
     "{\"text\":\"gm\"", "{\"text\":\"gm}", "{\"text\":\"g\\m\"}", "{\"text\" \"gm\"}",
     "{\"text\":gm}", "[1,]", "07", "nul", "{\"text\":\"g\nm\"}"}

Payloads == ObjectPayloads \cup NonObjectPayloads \cup MalformedPayloads

Transactions ==
    {[public_key |-> k[1], data |-> d, version |-> k[2]] :
        k \in {<<"0xA1", "1">>, <<"0xC1", "">>}, d \in Payloads}

\* The standard ABI encoding of a tuple of three strings, in hex.
Ord(c) == CHOOSE b \in 32..126 : Chr(b) = c

Bytes(s) == [k \in 1..Len(s) |-> Ord(Ch(s, k))]

Zeros(n) == [k \in 1..n |-> 0]

Word(n) ==
    Zeros(WordLen - 4) \o <<(n \div 16777216) % 256, (n \div 65536) % 256,
                            (n \div 256) % 256, n % 256>>

Padded(bytes) == bytes \o Zeros((WordLen - (Len(bytes) % WordLen)) % WordLen)

EncodeString(s) == Word(Len(s)) \o Padded(Bytes(s))

Encode3(n, i, b) ==
    LET head == 3 * WordLen
        tn == EncodeString(n)
        ti == EncodeString(i)
    IN  Word(head) \o Word(head + Len(tn)) \o Word(head + Len(tn) + Len(ti))
        \o tn \o ti \o EncodeString(b)

RECURSIVE HexRange(_, _, _, _)
HexRange(digits, bytes, lo, hi) ==
    IF lo > hi THEN ""
    ELSE IF lo = hi
    THEN Ch(digits, (bytes[lo] \div 16) + 1) \o Ch(digits, (bytes[lo] % 16) + 1)
    ELSE LET mid == (lo + hi) \div 2
         IN  HexRange(digits, bytes, lo, mid) \o HexRange(digits, bytes, mid + 1, hi)

hex_encode(bytes) == HexRange("0123456789abcdef", bytes, 1, Len(bytes))
hex_encode_upper(bytes) == HexRange("0123456789ABCDEF", bytes, 1, Len(bytes))

MintTuples ==
    {"Alice", ""} \X {"ipfs://x", ""}
        \X {"hello", "a body of more than thirty-two bytes, in two words"}

\* Each tuple with its encoding, in lower-case and in upper-case hex.
ValidData ==
    {[tuple |-> t, data |-> hex_encode(Encode3(t[1], t[2], t[3]))] : t \in MintTuples}
    \cup {[tuple |-> t, data |-> hex_encode_upper(Encode3(t[1], t[2], t[3]))] : t \in MintTuples}

Example == hex_encode(Encode3("Alice", "ipfs://x", "hello"))

\* The example with 8, 16, .. bytes cut off its end: the padding first, then
\* the bytes of the last string.
CutData == {SubSeq(Example, 1, Len(Example) - 16 * k) : k \in 1..MaxCut}

\* Well-formed hex that is no canonical encoding: one tail shared by the three
\* heads; a byte that is no UTF-8; words after the last tail.
LooseData ==
    {hex_encode(Word(96) \o Word(96) \o Word(96) \o EncodeString("hi")),
     hex_encode(Word(96) \o Word(96) \o Word(96) \o Word(1) \o <<255>>),
     Example \o hex_encode(Word(7))}

BadHexData ==
    {"0", SubSeq(Example, 1, Len(Example) - 1), "0x" \o Example, "zz", "0g",
     SubSeq(Example, 1, 63) \o "G" \o SubSeq(Example, 65, Len(Example))}

BadAbiData ==
    {"00", hex_encode(Word(96)),
     hex_encode(Word(96) \o Word(96) \o Word(4096) \o Word(0)),
     hex_encode(Word(96) \o Word(96) \o Word(96) \o Word(1000)),
     "01" \o SubSeq(Example, 3, Len(Example))}

MintData ==
    {""} \cup {e.data : e \in ValidData} \cup CutData \cup LooseData
         \cup BadHexData \cup BadAbiData

Keys == {<<"wall", "1">>, <<"", "0x2a">>}

(***************************************************************************)
(* The host: one call at a time; it takes what the call hands back and may *)
(* keep the first outcome of a probe call to compare later ones with.      *)
(***************************************************************************)

ExecuteCall(contract, metadatas, transaction) ==
    [op |-> "on_execute", contract |-> contract, metadatas |-> metadatas,
     transaction |-> transaction]

MintCall(contract, data_key, token_id, data) ==
    [op |-> "on_mint", contract |-> contract, data_key |-> data_key,
     token_id |-> token_id, data |-> data]

CloneCall == [op |-> "on_clone"]

Probes ==
    {ExecuteCall([public_key |-> "0xC1"], <<>>,
                 [public_key |-> "0xA1", data |-> d, version |-> "1"]) :
        d \in {"{\"image\":\"\"}", "{\"text\":\"gm\"}", "{\"image\":\"ipfs://Qm\"}",
               "{}", "[]", "{"}}
    \cup {MintCall([public_key |-> "0xC1"], "wall", "1", d) :
            d \in {"", Example, "0", "00"}}
    \cup {CloneCall}

Init == call = Idle /\ ret = NoResult /\ kept = Nothing

Execute ==
    /\ call = Idle
    /\ \E contract \in Contracts, metadatas \in MetadataLists, transaction \in Transactions :
          /\ call' = ExecuteCall(contract, metadatas, transaction)
          /\ ret' = on_execute(contract, metadatas, transaction)
    /\ UNCHANGED kept

Mint ==
    /\ call = Idle
    /\ \E contract \in Contracts, key \in Keys, data \in MintData :
          /\ call' = MintCall(contract, key[1], key[2], data)
          /\ ret' = on_mint(contract, key[1], key[2], data)
    /\ UNCHANGED kept

Clone ==
    /\ call = Idle
    /\ call' = CloneCall
    /\ ret' = on_clone
    /\ UNCHANGED kept

\* The host takes the outcome and keeps it.
Remember ==
    /\ call # Idle
    /\ kept = Nothing
    /\ call \in Probes
    /\ kept' = [call |-> call, ret |-> ret]
    /\ call' = Idle
    /\ ret' = NoResult

\* The host takes the outcome and drops it.
Discard ==
    /\ call # Idle
    /\ call' = Idle
    /\ ret' = NoResult
    /\ UNCHANGED kept

Next == Execute \/ Mint \/ Clone \/ Remember \/ Discard

Spec == Init /\ [][Next]_vars

(***************************************************************************)
(* The input classes are what their names say: the parser accepts and      *)
(* classifies them so.                                                     *)
(***************************************************************************)

InputClasses ==
    /\ \A d \in ObjectPayloads : from_str(d).ok /\ from_str(d).v.kind = "object"
    /\ \A d \in NonObjectPayloads : from_str(d).ok /\ from_str(d).v.kind # "object"
    /\ \A d \in MalformedPayloads : ~from_str(d).ok
    /\ \A d \in CutData \cup LooseData : hex_decode(d).ok
    /\ \A d \in BadHexData : ~hex_decode(d).ok
    /\ \A d \in BadAbiData : hex_decode(d).ok /\ ~decode(param_types, hex_decode(d).v).ok

(***************************************************************************)
(* What the claims speak of, read off the call in flight.                  *)
(***************************************************************************)

Executing == call.op = "on_execute"
Minting == call.op = "on_mint"
Envelope == ret.value
Failed(error_string) == Returned([result |-> FALSE, metadatas |-> <<>>, error_string |-> error_string])

\* The payload of the on_execute call in flight, as JSON.
Json == from_str(call.transaction.data)
IsObject(j) == j.ok /\ j.v.kind = "object"
StringField(j, key) == key \in DOMAIN j.v.map /\ j.v.map[key].kind = "string"
field(j, key) == j.v.map[key].s

\* C1: every envelope on_execute or on_mint returns is consistent: result
\* false goes with no records and a non-empty error_string, result true with
\* the empty error_string.
C1_EnvelopeConsistent ==
    (Executing \/ Minting) /\ ret.status = "returned" =>
        /\ ~Envelope.result => Envelope.metadatas = <<>> /\ Envelope.error_string # ""
        /\ Envelope.result => Envelope.error_string = ""

C1_Witness ==
    /\ Minting /\ ret.status = "returned" /\ ~Envelope.result
    /\ Envelope.error_string = "Invalid data structure: Invalid data"

\* C2 (as claimed): an object payload with an acceptable image string and a
\* text that is absent or no string makes on_execute return an envelope.
C2_NeverFaults ==
    Executing =>
        LET j == Json IN
        ( /\ IsObject(j)
          /\ StringField(j, "image")
          /\ \/ field(j, "image") = ""
             \/ starts_with(field(j, "image"), "https://nftstorage.link/ipfs/")
          /\ ~StringField(j, "text") )
        => ret.status = "returned"

\* C3: a successful on_execute returns exactly one record: the payload text
\* unchanged, owned by the submitter, alias empty, loose 1, the
\* transaction's version.
C3_EchoRecord ==
    Executing /\ ret.status = "returned" /\ Envelope.result =>
        Envelope.metadatas =
            <<[public_key |-> call.transaction.public_key, alias |-> "",
               content |-> call.transaction.data, loose |-> 1,
               version |-> call.transaction.version]>>

C3_Witness ==
    /\ Executing /\ ret.status = "returned" /\ Envelope.result
    /\ call.transaction.version # ""
    /\ call.transaction.public_key # call.contract.public_key
    /\ call.transaction.data = " { \"text\" : \"g\\\"m\" , \"image\" : \"\" } "

\* C4: an image string that is neither empty nor trusted-prefixed is refused
\* with the link error, whatever the text field is.
C4_LinkCheckWins ==
    Executing =>
        LET j == Json IN
        ( /\ IsObject(j)
          /\ StringField(j, "image")
          /\ field(j, "image") # ""
          /\ ~starts_with(field(j, "image"), "https://nftstorage.link/ipfs/") )
        => ret = Failed("Invalid image link is been used")

C4_Witness ==
    /\ Executing
    /\ ret = Failed("Invalid image link is been used")
    /\ LET j == Json IN
       /\ StringField(j, "image") /\ field(j, "image") = "https://nftstorage.link/ipfs"
       /\ StringField(j, "text")

\* C5: an object payload with neither a string image nor a string text is
\* refused with "No data inputted".
C5_NoData ==
    Executing =>
        LET j == Json IN
        IsObject(j) /\ ~StringField(j, "image") /\ ~StringField(j, "text")
        => ret = Failed("No data inputted")

C5_Witness ==
    /\ Executing
    /\ ret = Failed("No data inputted")
    /\ LET j == Json IN
       /\ "image" \in DOMAIN j.v.map /\ j.v.map["image"].kind = "number"
       /\ "text" \in DOMAIN j.v.map /\ j.v.map["text"].kind = "null"

\* C6: a payload that is no JSON, or JSON but no object, is refused: result
\* false, a non-empty error, no records.
C6_NotAnObject ==
    Executing /\ call.transaction.data \in MalformedPayloads \cup NonObjectPayloads =>
        /\ ret.status = "returned"
        /\ ~Envelope.result
        /\ Envelope.error_string # ""
        /\ Envelope.metadatas = <<>>

C6_Witness ==
    /\ Executing /\ call.transaction.data = "{\"text\":\"gm\"} x"
    /\ ret = Failed("Data is not a valid format.")

\* The description of the decode failure of the on_mint call in flight, if
\* its data fails to decode.
DecodeFailure ==
    LET data_bytes == hex_decode(call.data) IN
    IF ~data_bytes.ok THEN Some(HexErrorToString(data_bytes.e))
    ELSE LET results == decode(param_types, data_bytes.v) IN
         IF ~results.ok THEN Some(AbiErrorToString(results.e)) ELSE None

\* C7: non-empty data whose hex or ABI decoding fails is refused with no
\* records and an error that embeds the description of the decode failure.
C7_DecodeFailure ==
    Minting /\ Len(call.data) > 0 /\ DecodeFailure.some =>
        /\ ret.status = "returned"
        /\ ~Envelope.result
        /\ Envelope.metadatas = <<>>
        /\ contains(Envelope.error_string, DecodeFailure.v)

C7_Witness ==
    /\ Minting /\ call.data = "0x" \o Example
    /\ ret = Failed("Invalid data structure: Invalid character 'x' at position 1")

MintRecord(alias, content) ==
    [public_key |-> call.contract.public_key, alias |-> alias, content |-> content,
     loose |-> 1, version |-> ""]

\* C8: the hex of a valid encoding of (n, i, b) yields result true and five
\* records in order: name n, image i, body b, description, attributes.
C8_MintDecoded ==
    \A e \in ValidData :
        Minting /\ call.data = e.data =>
            /\ ret.status = "returned"
            /\ Envelope.result
            /\ Envelope.error_string = ""
            /\ Len(Envelope.metadatas) = 5
            /\ SubSeq(Envelope.metadatas, 1, 3) =
                   <<MintRecord("name", e.tuple[1]), MintRecord("image", e.tuple[2]),
                     MintRecord("body", e.tuple[3])>>
            /\ Envelope.metadatas[4].alias = "description"
            /\ Envelope.metadatas[5].alias = "attributes"

C8_Witness ==
    /\ Minting /\ call.data = Example
    /\ ret.status = "returned" /\ Envelope.result
    /\ Envelope.metadatas[1].content = "Alice"
    /\ Envelope.metadatas[2].content = "ipfs://x"
    /\ Envelope.metadatas[3].content = "hello"

\* C9: empty data yields result true and exactly two records, description
\* then attributes, the latter holding the JSON of the pairs origin and type.
C9_MintEmpty ==
    Minting /\ call.data = "" =>
        /\ ret.status = "returned"
        /\ Envelope.result
        /\ Len(Envelope.metadatas) = 2
        /\ Envelope.metadatas[1].alias = "description"
        /\ Envelope.metadatas[2].alias = "attributes"
        /\ Envelope.metadatas[2].content =
             "[{\"trait_type\":\"origin\",\"value\":\"w3wall\"},{\"trait_type\":\"type\",\"value\":\"topic\"}]"
        /\ from_str(Envelope.metadatas[2].content) =
             [ok |-> TRUE,
              v |-> Array(<<Object(("trait_type" :> String("origin")) @@ ("value" :> String("w3wall"))),
                            Object(("trait_type" :> String("type")) @@ ("value" :> String("topic")))>>)]

C9_Witness ==
    /\ Minting /\ call.data = "" /\ call.contract.public_key = "0xC2"
    /\ call.token_id = "0x2a"
    /\ ret.status = "returned" /\ Envelope.result /\ Len(Envelope.metadatas) = 2

====
